---- MODULE Spec2Model ----
(***************************************************************************)
(* Multi-turn tool-calling orchestration loop of the MCP research client:  *)
(* handleInteractiveQuery / processConversation (src/helper.ts 1088-1261), *)
(* the tool registry (src/helpers.ts), buildToolSet                        *)
(* (src/unnamed/part_002), the menu loop of main (src/helper.ts 817-1007)  *)
(* and the two earlier formulations of the conversation loop               *)
(* (src/helper.ts 634-788 and 1624-1788).                                  *)
(*                                                                         *)
(* A text is a sequence of tokens.  A token is a word or the blank token   *)
(* " " (a run of extra white space); consecutive words are separated by a  *)
(* single space.  The empty sequence is the empty string.                  *)
(***************************************************************************)
EXTENDS Integers, Sequences, FiniteSets, TLC

\* ------------------------------------------------------------------ bounds
\* Entries of the transcript: a turn that would pass a longer transcript on
\* is not explored.
MaxTranscript == 6

\* ------------------------------------------------------- program constants
MAX_ATTEMPTS == 3
MAX_CONSECUTIVE_TOOL_CALLS == 3
MIN_WORDS == 12
BACKOFF_STEP == 600

\* --------------------------------------------------------------- text ops
Blank == " "

Rep(w, n) == [i \in 1..n |-> w]

RECURSIVE TrimLeft(_)
TrimLeft(t) ==
  IF t = <<>> THEN <<>>
  ELSE IF Head(t) = Blank THEN TrimLeft(Tail(t)) ELSE t

RECURSIVE TrimRight(_)
TrimRight(t) ==
  IF t = <<>> THEN <<>>
  ELSE IF t[Len(t)] = Blank THEN TrimRight(SubSeq(t, 1, Len(t) - 1)) ELSE t

\* String.prototype.trim
Trim(t) == TrimRight(TrimLeft(t))

IsWord(w) == w # Blank

\* String.prototype.toLowerCase on one token
ToLowerCase(w) ==
  CASE w = "Which" -> "which"
    [] w = "Please" -> "please"
    [] w = "/STOP" -> "/stop"
    [] w = "/Run" -> "/run"
    [] w = "UNAVAILABLE" -> "unavailable"
    [] w = "Overloaded" -> "overloaded"
    [] w = "Chart" -> "chart"
    [] OTHER -> w

LowerText(t) == [i \in 1..Len(t) |-> ToLowerCase(t[i])]

\* t.split(/\s+/).length : the words, plus one empty piece for white space
\* at the start and one for white space at the end; "" splits into [""].
SplitLength(t) ==
  LET words == Len(SelectSeq(t, IsWord))
  IN  IF t = <<>> THEN 1
      ELSE words + (IF Head(t) = Blank THEN 1 ELSE 0)
                 + (IF t[Len(t)] = Blank THEN 1 ELSE 0)

\* A token ends in "?"
EndsInQuestionMark(w) == w \in {"like?", "want?", "?"}

\* The alternatives of clarificationRegex other than [?]\s*$, lower-cased,
\* as sequences of consecutive words.
ClarificationPhrases ==
  { <<"specify">>, <<"clarify">>, <<"which">>,
    <<"provide", "more", "details">>,
    <<"what", "interval">>, <<"what", "format">>,
    <<"please", "choose">>,
    <<"could", "you", "specify">>, <<"could", "you", "clarify">>,
    <<"could", "you", "provide">>,
    <<"need", "more", "information">>,
    <<"please", "provide">>,
    <<"i", "also", "need">> }

\* t holds phrase p as consecutive tokens
ContainsPhrase(t, p) ==
  \E i \in 1..Len(t) :
    /\ i + Len(p) - 1 <= Len(t)
    /\ SubSeq(t, i, i + Len(p) - 1) = p

\* clarificationRegex.test(s)
clarificationRegex(s) ==
  \/ TrimRight(s) # <<>> /\ EndsInQuestionMark(TrimRight(s)[Len(TrimRight(s))])
  \/ \E p \in ClarificationPhrases : ContainsPhrase(LowerText(s), p)

isClarification(t) == clarificationRegex(Trim(t))

\* mutant: the threshold itself counts as too short
isTooShort_Inclusive(t) == SplitLength(t) <= MIN_WORDS

\* const isTooShort = (t) => t.split(/\s+/).length < 12
isTooShort(t) == SplitLength(t) < MIN_WORDS

\* ------------------------------------------------------------ transcript
\* One entry of the transcript string: "\nUser: ..." or "\nAssistant: ...".
UserEntry(t) == [tag |-> "User", text |-> t]
AssistantEntry(t) == [tag |-> "Assistant", text |-> t]

\* '(auto) Please elaborate fully with data, context, and actionable insights.'
AutoElaborate ==
  <<"(auto)", "Please", "elaborate", "fully", "with", "data,", "context,",
    "and", "actionable", "insights.">>
\* 'Please provide the final comprehensive answer now.'
FinalNow == <<"Please", "provide", "the", "final", "comprehensive", "answer", "now.">>
\* 'Provide the best possible final answer now.'
BestNow == <<"Provide", "the", "best", "possible", "final", "answer", "now.">>

\* ---------------------------------------------------------- tool results
\* One element of result.toolResults: the tool's name ("" when the entry
\* carries none), the arguments of the call and result.content[0].text (""
\* when it carries none).
ToolResult(name, out) == [toolName |-> name, args |-> <<>>, out |-> out]

\* The toolResults of a run that invokes the same tools in the same order
\* with other arguments and gets other results
Twin(tr) ==
  [i \in 1..Len(tr) |->
     [toolName |-> tr[i].toolName,
      args |-> << <<"query", "other">> >>,
      out |-> "other " \o tr[i].out]]

\* toolResults.map(tr => tr.toolName).filter(Boolean)
calledToolNames(tr) ==
  LET names == [i \in 1..Len(tr) |-> tr[i].toolName]
      Truthy(n) == n # ""
  IN  SelectSeq(names, Truthy)

\* Array.prototype.join(',')
RECURSIVE Join(_)
Join(names) ==
  IF names = <<>> THEN ""
  ELSE IF Len(names) = 1 THEN names[1]
  ELSE names[1] \o "," \o Join(Tail(names))

\* mutant: the signature does not depend on the order of the calls
currentToolCall_AnyOrder(tr) ==
  LET names == calledToolNames(tr)
      used == {names[i] : i \in 1..Len(names)}
      Times(s, n) == Cardinality({i \in 1..Len(names) : s[i] = n})
      orders == {s \in [1..Len(names) -> used] :
                   \A n \in used : Times(s, n) = Times(names, n)}
  IN  Join(CHOOSE s \in orders : TRUE)

\* mutant: the signature also holds what each tool returned
currentToolCall_WithOutput(tr) ==
  LET named == SelectSeq(tr, LAMBDA r : r.toolName # "")
  IN  Join([i \in 1..Len(named) |-> named[i].toolName \o ":" \o named[i].out])

currentToolCall(tr) == Join(calledToolNames(tr))

\* toolResults[0]?.result?.content?.[0]?.text || ''
firstOut(tr) == IF Len(tr) > 0 THEN tr[1].out ELSE ""

\* /https?:\/\//.test(s)
HasUrl(s) == s \in {"Chart created: https://quickchart.io/chart?c=1"}

HasWordIn(q, ws) == \E i \in 1..Len(q) : ToLowerCase(q[i]) \in ws

\* /\b(chart|graph|plot|visual)\b/i.test(q) && !/\b(stock|price|...)\b/i.test(q)
visualizationOnlyQuery(q) ==
  /\ HasWordIn(q, {"chart", "graph", "plot", "visual"})
  /\ ~HasWordIn(q, {"stock", "price", "search", "lookup", "symbol", "data-finance"})

\* ------------------------------------------------------------ model errors
\* An error thrown by generateText: err.message, err.statusCode (0 when the
\* error has none) and err.reason ("" when it has none).
ModelError(msg, code, reason) == [message |-> msg, statusCode |-> code, reason |-> reason]

\* mutant: only the message decides
isOverload_MessageOnly(err) ==
  HasWordIn(err.message, {"overloaded", "unavailable", "503"})

\* /overloaded|UNAVAILABLE|503/i.test(err?.message || '') || err?.statusCode === 503
\*   || err?.reason === 'maxRetriesExceeded'
isOverload(err) ==
  \/ HasWordIn(err.message, {"overloaded", "unavailable", "503"})
  \/ err.statusCode = 503
  \/ err.reason = "maxRetriesExceeded"

\* mutant: the cap is tested with > instead of >=
AbortOnError_OffByOne(err, att) == ~isOverload(err) \/ att > MAX_ATTEMPTS

\* mutant: only the cap aborts, the kind of the error is not looked at
AbortOnError_CapOnly(err, att) == att >= MAX_ATTEMPTS

\* if (!isOverload || attempt >= MAX_ATTEMPTS) : abort, with attempt already
\* incremented
AbortOnError(err, att) == ~isOverload(err) \/ att >= MAX_ATTEMPTS

\* while (attempt < MAX_ATTEMPTS)
RetryLoopCondition(att) == att < MAX_ATTEMPTS

\* mutant: the same delay before every retry
Backoff_Constant(att) == BACKOFF_STEP

\* const backoff = 600 * attempt
Backoff(att) == BACKOFF_STEP * att

\* --------------------------------------------------------------- loop guard
\* mutant: every tool-invoking turn counts as a repetition
SameToolCall_Always(cur, last) == TRUE

\* if (currentToolCall === lastToolCall)
SameToolCall(cur, last) == cur = last

\* consecutiveToolCalls after the loop-detection step
GuardCount(cur, last, count) == IF SameToolCall(cur, last) THEN count + 1 ELSE 0

\* lastToolCall after the loop-detection step
GuardLast(cur, last) == IF SameToolCall(cur, last) THEN last ELSE cur

\* if (consecutiveToolCalls >= MAX_CONSECUTIVE_TOOL_CALLS), inside the
\* branch of a repeated signature
GuardTripped(cur, last, count) ==
  SameToolCall(cur, last) /\ GuardCount(cur, last, count) >= MAX_CONSECUTIVE_TOOL_CALLS

\* mutant: a turn without tool invocations resets the guard
LoopDetection_ResetOnText(tr, last, count) ==
  IF Len(tr) > 0
  THEN <<GuardLast(currentToolCall(tr), last), GuardCount(currentToolCall(tr), last, count)>>
  ELSE <<"", 0>>

\* if (toolResults && toolResults.length > 0) { ... loop detection ... }:
\* lastToolCall and consecutiveToolCalls after the primary result
LoopDetection(tr, last, count) ==
  IF Len(tr) > 0
  THEN <<GuardLast(currentToolCall(tr), last), GuardCount(currentToolCall(tr), last, count)>>
  ELSE <<last, count>>

\* mutant: the tool results of the summarize call go through loop detection
SecondaryGuard_Counted(tr, last, count) ==
  IF Len(tr) > 0
  THEN <<GuardLast(currentToolCall(tr), last), GuardCount(currentToolCall(tr), last, count)>>
  ELSE <<last, count>>

\* const { text: finalText } = await generateText(...): of the summarize
\* call's result only the text is taken; lastToolCall and
\* consecutiveToolCalls stay as they are whatever tools it invoked
SecondaryGuard(tr, last, count) == <<last, count>>

\* ------------------------------------------------------------ human replies
\* mutant: /stop is not recognised
IsStop_Never(answer) == FALSE

\* answer.toLowerCase() === '/stop'
IsStop(answer) == LowerText(answer) = <<"/stop">>
\* answer.toLowerCase() === '/run'
IsRun(answer) == LowerText(answer) = <<"/run">>

\* ------------------------------------------------------------ tool registry
\* Object.keys(clients): the servers in the order main connects them
\* (SERVER_CONFIGS)
ClientNames == <<"Brave Search", "Alphavantage">>

AllServers == "All Servers"

\* A Tool as listed by a server or derived from a chart tool: its name, and
\* its description standing for everything else the descriptor carries
\* (description, inputSchema)
ToolDef(name, description) == [name |-> name, description |-> description]

\* Object.keys(chartTools)
ChartToolNames ==
  <<"create_chart", "create_multi_dataset_chart", "create_comparison_chart">>

\* chartTools[name].description
ChartDescription(name) == "local chart tool " \o name

\* getChartToolsAsTools()
getChartToolsAsTools ==
  [i \in 1..Len(ChartToolNames) |->
     ToolDef(ChartToolNames[i], ChartDescription(ChartToolNames[i]))]

\* What one listTools() call gives: the tools, or ok = FALSE when it throws
Listed(tools) == [ok |-> TRUE, tools |-> tools]
ListFails == [ok |-> FALSE, tools |-> <<>>]

\* try { clientTools = (await client.listTools()).tools } catch {} : what
\* one client contributes
Contribution(listing, c) == IF listing[c].ok THEN listing[c].tools ELSE <<>>

\* mutant: the first failing listTools ends the aggregation
RECURSIVE ConcatClients_StopAtFailure(_, _)
ConcatClients_StopAtFailure(listing, i) ==
  IF i > Len(ClientNames) \/ ~listing[ClientNames[i]].ok THEN <<>>
  ELSE listing[ClientNames[i]].tools \o ConcatClients_StopAtFailure(listing, i + 1)

\* the tools of the clients from client i on, in the order of
\* Object.keys(clients), given what each client's listTools gives
RECURSIVE ConcatClients(_, _)
ConcatClients(listing, i) ==
  IF i > Len(ClientNames) THEN <<>>
  ELSE Contribution(listing, ClientNames[i]) \o ConcatClients(listing, i + 1)

aggregateAllTools(listing) == ConcatClients(listing, 1) \o getChartToolsAsTools

\* m with m[k] = v : the assignment m[k] = v on a Record<string, _>
Put(m, k, v) == [x \in DOMAIN m \cup {k} |-> IF x = k THEN v ELSE m[x]]

\* mutant: only the tools of the first server are mapped
MapTool_FirstServerOnly(m, name, c) == IF c = ClientNames[1] THEN Put(m, name, c) ELSE m

\* mutant: a name that is already mapped keeps its first client
MapTool_FirstWins(m, name, c) == IF name \in DOMAIN m THEN m ELSE Put(m, name, c)

\* toolClientMap[tool.name] = clients[clientName]
MapTool(m, name, c) == Put(m, name, c)

\* the inner loop of aggregateToolsWithMapping over one client's tools
RECURSIVE MapClientTools(_, _, _)
MapClientTools(m, tools, c) ==
  IF tools = <<>> THEN m
  ELSE MapClientTools(MapTool(m, Head(tools).name, c), Tail(tools), c)

\* the outer loop of aggregateToolsWithMapping, from client i on
RECURSIVE MapClients(_, _, _)
MapClients(m, listing, i) ==
  IF i > Len(ClientNames) THEN m
  ELSE MapClients(MapClientTools(m, Contribution(listing, ClientNames[i]),
                                 ClientNames[i]),
                  listing, i + 1)

\* the empty Record
EmptyMap == [x \in {} |-> ""]

\* aggregateToolsWithMapping(clients)
aggregateToolsWithMapping(listing) ==
  [allTools |-> ConcatClients(listing, 1) \o getChartToolsAsTools,
   toolClientMap |-> MapClients(EmptyMap, listing, 1)]

IsChartTool(name) == \E i \in 1..Len(ChartToolNames) : ChartToolNames[i] = name

\* mutant: every descriptor is wrapped as a remote tool
ToolSetEntry_RemoteAlways(toolDef) ==
  [description |-> toolDef.description, local |-> FALSE]

\* One entry of the ToolSet: the description (and parameters) it shows the
\* model, and whether execute is the chart tool's own function
ToolSetEntry(toolDef) ==
  IF IsChartTool(toolDef.name)
  THEN [description |-> ChartDescription(toolDef.name), local |-> TRUE]
  ELSE [description |-> toolDef.description, local |-> FALSE]

\* buildToolSet: for (const toolDef of tools) mcpTools[toolDef.name] = tool(...)
RECURSIVE BuildEntries(_, _)
BuildEntries(m, tools) ==
  IF tools = <<>> THEN m
  ELSE BuildEntries(Put(m, Head(tools).name, ToolSetEntry(Head(tools))), Tail(tools))

buildToolSet(tools) == BuildEntries([x \in {} |-> ToolSetEntry(ToolDef("", ""))], tools)

\* mutant: execute always calls the client of opts.mcp
ExecClient_AlwaysMcp(name, multi, map, client) == client

\* const execClient = multi ? toolClientMap![toolDef.name] : mcp!
\* ("undefined" when the map holds no client for the name)
ExecClient(name, multi, map, client) ==
  IF multi
  THEN IF name \in DOMAIN map THEN map[name] ELSE "undefined"
  ELSE client

\* execClient.callTool({ name: toolDef.name, arguments: args })
CallToolRequest(name, args) == [name |-> name, arguments |-> args]

\* ------------------------------------------------- inputs of the environment
TextEmpty == <<>>
\* a reply of eleven words, with white space around it
TextShort == <<Blank>> \o Rep("ok", 11) \o <<Blank>>
\* a reply of twelve words
TextLong == Rep("ok", 12)
\* a clarifying reply of six words
TextClarify == <<"Which", "time", "interval", "would", "you", "like?">>

\* What the summarize call may return as text
Texts == {TextEmpty, TextShort, TextLong, TextClarify}

\* The toolResults the summarize call's result may carry (its tools are
\* enabled)
SummarizeToolResults == {<<>>, <<ToolResult("search", "rows")>>}

\* What the forced call may return as text
ForcedTexts == {TextEmpty, TextLong}

SearchResult == ToolResult("search", "rows")
ChartResult == ToolResult("create_chart", "Chart created: https://quickchart.io/chart?c=1")

\* A result of generateText: its text and its toolResults (undefined and []
\* are both <<>>)
Result(t, tr) == [text |-> t, toolResults |-> tr]

\* What the primary call may return
PrimaryResults ==
  { Result(TextEmpty, <<>>), Result(TextShort, <<>>), Result(TextLong, <<>>),
    Result(TextClarify, <<>>),
    Result(TextEmpty, <<SearchResult>>), Result(TextEmpty, <<ChartResult>>),
    Result(TextShort, <<SearchResult>>) }

\* Tool results of two tools invoked in either order, and one that carries
\* no tool name
ResultA == ToolResult("a", "rows")
ResultB == ToolResult("b", "rows")
ResultNameless == ToolResult("", "rows")

\* What the primary call may return when the model keeps invoking tools:
\* a then b, b then a, a result without a name, or a final text
SignatureResults ==
  { Result(TextEmpty, <<ResultA, ResultB>>), Result(TextEmpty, <<ResultB, ResultA>>),
    Result(TextEmpty, <<ResultNameless>>), Result(TextLong, <<>>) }

\* What the summarize call may return then
SignatureTexts == {TextEmpty, TextLong}

\* What the human may type as the query
Queries == {<<"AAPL", "stock", "news">>, <<"draw", "a", "Chart">>}

\* What the human may type at a clarification prompt
Answers == {<<"/stop">>, <<"/run">>, <<"daily">>}

ErrOverloaded == ModelError(<<"The", "model", "is", "Overloaded">>, 0, "")
ErrStatus503 == ModelError(<<"Service", "error">>, 503, "")
ErrFatal == ModelError(<<"API", "key", "not", "valid">>, 400, "")

\* What generateText may throw
Errors == {ErrOverloaded, ErrStatus503, ErrFatal}

\* Further errors: UNAVAILABLE and 503 in the message, the reason
\* maxRetriesExceeded, a server error that is not 503, no message at all
ErrUnavailable == ModelError(<<"Status", "UNAVAILABLE">>, 0, "")
ErrMessage503 == ModelError(<<"HTTP", "503">>, 0, "")
ErrMaxRetries == ModelError(<<"Failed", "after", "3", "attempts">>, 0, "maxRetriesExceeded")
ErrStatus500 == ModelError(<<"Internal", "error">>, 500, "")
ErrNoMessage == ModelError(<<>>, 0, "")
RetryErrors ==
  Errors \cup {ErrUnavailable, ErrMessage503, ErrMaxRetries, ErrStatus500, ErrNoMessage}

\* What the primary call returns when it does not throw, in the runs that
\* look at the retry loop: a final text, or nothing
RetryResults == {Result(TextLong, <<>>), Result(TextEmpty, <<>>)}

\* The descriptor server c lists for tool name n
Lists(c, n) == ToolDef(n, c \o " tool " \o n)

\* What a listTools() call on server c may give
ListResults(c) ==
  { ListFails,
    Listed(<<Lists(c, "x")>>),
    Listed(<<Lists(c, "t1"), Lists(c, "t2")>>),
    Listed(<<Lists(c, "x"), Lists(c, "create_chart")>>) }

ClientSet == {ClientNames[i] : i \in 1..Len(ClientNames)}

\* What the listTools() calls of one aggregation or refresh may give
Listings ==
  {l \in [ClientSet -> UNION {ListResults(c) : c \in ClientSet}] :
     \A c \in ClientSet : l[c] \in ListResults(c)}

\* The arguments the model may pass to a tool: none, or one key with its value
ToolArgs == {<<>>, << <<"symbol", "AAPL">> >>}

\* The servers offered by the "Select MCP server" prompt
ServerChoices == {AllServers} \cup ClientSet

\* ------------------------------------------------------------------- state
VARIABLES
  pc,                    \* where the engine is suspended
  userQuery,             \* handleInteractiveQuery: userQuery
  transcript,            \* processConversation: currentTranscript
  consecutiveToolCalls,  \* handleInteractiveQuery: consecutiveToolCalls
  lastToolCall,          \* handleInteractiveQuery: lastToolCall
  attempt,               \* processConversation: attempt
  text,                  \* processConversation: text
  toolResults,           \* processConversation: toolResults
  finalText,             \* processConversation: finalText
  \* observers (not program state)
  outcome,               \* how the conversation ended
  turn,                  \* invocations of processConversation so far
  calls,                 \* primary generateText calls issued in this turn
  lastErr,               \* <<err>>: the error the last step's primary call threw
  forcedState,           \* the conversation's last forced call
  nForced,               \* forced calls issued in this conversation
  nSumm,                 \* summarize calls issued in this conversation
  candidate,             \* <<t>>: the reply classified by the last step
  lastAnswer,            \* <<a>>: the human reply consumed by the last step
  prevNames,             \* <<names>>: tool names of the last tool-invoking turn
  curRun,                \* length of the current run of identical name lists
  maxRun,                \* longest such run in this conversation
  onlySearch,            \* every primary result so far invoked exactly "search"
  twinLast,              \* lastToolCall of the twin run (see Twin)
  twinCount,             \* consecutiveToolCalls of the twin run
  ranWithoutResult,      \* the code after the retry loop ran with no result
  pending,               \* the awaited operations that have not settled yet
  waited,                \* the delays (ms) of the backoff timers set in this turn
  \* main and the tool set of the running query
  mpc,                   \* where main is: "start", "menu" or "query"
  selectedServer,        \* main: selectedServer
  mcp,                   \* main: mcp
  tools,                 \* main: tools
  qTools,                \* handleInteractiveQuery: tools
  qMulti,                \* handleInteractiveQuery: opts.multi
  qToolClientMap,        \* handleInteractiveQuery: opts.toolClientMap
  qMcp,                  \* handleInteractiveQuery: opts.mcp
  toolSet,               \* handleInteractiveQuery: toolSet
  qListing,              \* observer: what listTools gave for this query's tools
  toolsListing,          \* observer: what listTools gave for main's tools
  toolsScope,            \* observer: the selection main's tools were read for
  lastCall,              \* observer: where the last tool invocation went
  \* the earlier formulations of handleInteractiveQuery, run side by side
  iterative,             \* the while-loop version: its variables and its calls
  recursive              \* the self-recursive version: its variables and its calls

locals == <<text, toolResults, finalText>>
frame == <<transcript, turn, calls, attempt, waited>>
guard == <<consecutiveToolCalls, lastToolCall, prevNames, curRun, maxRun, onlySearch,
           twinLast, twinCount>>
forcedCall == <<forcedState, nForced>>
convVars == <<pc, userQuery, outcome, locals, frame, lastErr, guard, forcedCall,
              nSumm, candidate, lastAnswer, ranWithoutResult, pending>>
queryVars == <<qTools, qMulti, qToolClientMap, qMcp, toolSet, qListing>>
refreshed == <<tools, toolsListing, toolsScope>>
mainVars == <<mpc, selectedServer, mcp, refreshed, queryVars, lastCall>>
versions == <<iterative, recursive>>
regVars == <<mainVars, versions>>
vars == <<convVars, regVars>>

NoListing == [c \in ClientSet |-> ListFails]
NoCall == [name |-> "", client |-> "", description |-> "", local |-> FALSE,
           given |-> <<>>, request |-> CallToolRequest("", <<>>)]

\* The variables of one version before a query is read
VersionIdle ==
  [pc |-> "idle", transcript |-> <<>>, consecutiveToolCalls |-> 0,
   lastToolCall |-> "", text |-> <<>>, toolResults |-> <<>>,
   finalText |-> <<>>, reply |-> <<>>, issued |-> <<>>, outcome |-> "none"]

Init ==
  /\ pc = "menu"
  /\ userQuery = <<>>
  /\ transcript = <<>>
  /\ consecutiveToolCalls = 0
  /\ lastToolCall = ""
  /\ attempt = 0
  /\ text = <<>>
  /\ toolResults = <<>>
  /\ finalText = <<>>
  /\ outcome = "none"
  /\ turn = 0
  /\ calls = 0
  /\ lastErr = <<>>
  /\ forcedState = "none"
  /\ nForced = 0
  /\ nSumm = 0
  /\ candidate = <<>>
  /\ lastAnswer = <<>>
  /\ prevNames = <<>>
  /\ curRun = 0
  /\ maxRun = 0
  /\ onlySearch = TRUE
  /\ twinLast = ""
  /\ twinCount = 0
  /\ ranWithoutResult = FALSE
  /\ pending = <<>>
  /\ waited = <<>>
  /\ mpc = "start"
  /\ selectedServer = ""
  /\ mcp = ""
  /\ tools = <<>>
  /\ qTools = <<>>
  /\ qMulti = FALSE
  /\ qToolClientMap = EmptyMap
  /\ qMcp = ""
  /\ toolSet = buildToolSet(<<>>)
  /\ qListing = NoListing
  /\ toolsListing = NoListing
  /\ toolsScope = ""
  /\ lastCall = NoCall
  /\ iterative = VersionIdle
  /\ recursive = VersionIdle

\* ------------------------------------------------- ways a step can end
\* The operation awaited at each place the engine suspends
Awaited(where) ==
  CASE where = "primary" -> "generateText"
    [] where = "forced" -> "generateText (forced)"
    [] where = "summarize" -> "generateText (summarize)"
    [] where = "backoff" -> "setTimeout"
    [] OTHER -> "input"

\* mutant: the next operation is started without awaiting the running one
Settle_NotAwaited(p, started) == p \o started

\* await: the step runs when the awaited operation has settled, and may
\* start the next ones
Settle(p, started) == Tail(p) \o started

\* processConversation returns
Return(out, t, tr, ft, cand) ==
  /\ pc' = "done"
  /\ outcome' = out
  /\ text' = t
  /\ toolResults' = tr
  /\ finalText' = ft
  /\ candidate' = cand
  /\ lastErr' = <<>>
  /\ pending' = Settle(pending, <<>>)
  /\ UNCHANGED frame

\* mutant: attempt is a variable of the conversation, not of the turn
Recurse_SharedBudget(newTranscript, cand) ==
  /\ Len(newTranscript) <= MaxTranscript
  /\ pc' = "primary"
  /\ outcome' = outcome
  /\ transcript' = newTranscript
  /\ turn' = turn + 1
  /\ calls' = 1
  /\ attempt' = attempt
  /\ lastErr' = <<>>
  /\ text' = <<>>
  /\ toolResults' = <<>>
  /\ finalText' = <<>>
  /\ candidate' = cand
  /\ pending' = Settle(pending, <<Awaited("primary")>>)
  /\ waited' = <<>>

\* mutant: after the third turn the conversation ends instead
Recurse_Capped(newTranscript, cand) ==
  /\ Len(newTranscript) <= MaxTranscript
  /\ pc' = (IF turn < 3 THEN "primary" ELSE "done")
  /\ outcome' = (IF turn < 3 THEN outcome ELSE "TurnCap")
  /\ transcript' = newTranscript
  /\ turn' = turn + 1
  /\ calls' = 1
  /\ attempt' = 0
  /\ lastErr' = <<>>
  /\ text' = <<>>
  /\ toolResults' = <<>>
  /\ finalText' = <<>>
  /\ candidate' = cand
  /\ pending' = Settle(pending, <<Awaited("primary")>>)
  /\ waited' = <<>>

\* return processConversation(newTranscript, toolSet): the next turn starts
\* and issues its first primary call
Recurse(newTranscript, cand) ==
  /\ Len(newTranscript) <= MaxTranscript
  /\ pc' = "primary"
  /\ outcome' = outcome
  /\ transcript' = newTranscript
  /\ turn' = turn + 1
  /\ calls' = 1
  /\ attempt' = 0
  /\ lastErr' = <<>>
  /\ text' = <<>>
  /\ toolResults' = <<>>
  /\ finalText' = <<>>
  /\ candidate' = cand
  /\ pending' = Settle(pending, <<Awaited("primary")>>)
  /\ waited' = <<>>

\* the turn suspends on an await
Await(where, t, tr, ft, cand) ==
  /\ pc' = where
  /\ outcome' = outcome
  /\ text' = t
  /\ toolResults' = tr
  /\ finalText' = ft
  /\ candidate' = cand
  /\ lastErr' = <<>>
  /\ pending' = Settle(pending, <<Awaited(where)>>)
  /\ UNCHANGED frame

\* ------------------------------------------------------ transcript updates
\* currentTranscript + `\nAssistant: ${reply}` + '\nUser: (auto) Please elaborate ...'
ElaborateTranscript(cur, reply) ==
  cur \o <<AssistantEntry(reply), UserEntry(AutoElaborate)>>

\* mutant: the next turn starts on the transcript as it was
NoTextTranscript_Unchanged(cur) == cur

\* currentTranscript + '\nAssistant: Please provide the final comprehensive answer now.'
NoTextTranscript(cur) == cur \o <<AssistantEntry(FinalNow)>>

\* mutant: the human's reply is not recorded
AnswerTranscript_NoUser(cur, reply, answer) == cur \o <<AssistantEntry(reply)>>

\* currentTranscript + `\nAssistant: ${reply}\nUser: ${answer}`
AnswerTranscript(cur, reply, answer) ==
  cur \o <<AssistantEntry(reply), UserEntry(answer)>>

\* mutant: the instruction starts the transcript over from the query
RunTranscript_Fresh(newTranscript) ==
  <<Head(newTranscript), AssistantEntry(BestNow)>>

\* newTranscript + '\nAssistant: Provide the best possible final answer now.'
RunTranscript(newTranscript) == newTranscript \o <<AssistantEntry(BestNow)>>

\* ------------------------------------------------------------ one turn
\* mutant: isTooShort is tested first
Classify_ShortFirst(reply) ==
  IF isTooShort(reply) THEN "tooShort"
  ELSE IF isClarification(reply) THEN "clarification"
  ELSE "final"

\* isClarification is tested first, isTooShort second
Classify(reply) ==
  IF isClarification(reply) THEN "clarification"
  ELSE IF isTooShort(reply) THEN "tooShort"
  ELSE "final"

\* Handle normal text response
DirectText(t, tr) ==
  LET reply == Trim(t)
      kind == Classify(reply)
  IN  IF kind = "clarification"
      THEN Await("promptDirect", t, tr, <<>>, <<reply>>)
      ELSE IF kind = "tooShort"
      THEN Recurse(ElaborateTranscript(transcript, reply), <<reply>>)
      ELSE Return("Done", t, tr, <<>>, <<reply>>)

\* Handle case where there's no text at all, else the normal text response
NoTextOrDirect(t, tr) ==
  IF t = <<>>
  THEN Recurse(NoTextTranscript(transcript), <<>>)
  ELSE DirectText(t, tr)

\* mutant: the fast path is taken whatever the query asked for
FastPath_AnyQuery(q, tr) == Len(tr) > 0 /\ HasUrl(firstOut(tr))

\* visualizationOnlyQuery && toolResults?.length && a URL in the first output
FastPath(q, tr) ==
  visualizationOnlyQuery(q) /\ Len(tr) > 0 /\ HasUrl(firstOut(tr))

\* if (toolResults?.length && !text)
NeedsSummarize(t, tr) == Len(tr) > 0 /\ t = <<>>

\* The turn from the visualization fast-path on
AfterGuard(t, tr) ==
  IF FastPath(userQuery, tr)
  THEN Return("FastPath", t, tr, <<>>, <<>>) /\ nSumm' = nSumm
  ELSE IF NeedsSummarize(t, tr)
  THEN Await("summarize", t, tr, <<>>, <<>>) /\ nSumm' = nSumm + 1
  ELSE NoTextOrDirect(t, tr) /\ nSumm' = nSumm

\* The turn from the end of the retry loop on: loop detection first
PostLoop(t, tr) ==
  LET invoked == Len(tr) > 0
      cur == currentToolCall(tr)
      names == calledToolNames(tr)
      run == IF prevNames = <<names>> THEN curRun + 1 ELSE 1
  IN  /\ consecutiveToolCalls' =
           LoopDetection(tr, lastToolCall, consecutiveToolCalls)[2]
      /\ lastToolCall' = LoopDetection(tr, lastToolCall, consecutiveToolCalls)[1]
      /\ prevNames' = IF invoked THEN <<names>> ELSE prevNames
      /\ curRun' = IF invoked THEN run ELSE curRun
      /\ maxRun' = IF invoked /\ run > maxRun THEN run ELSE maxRun
      /\ onlySearch' = (onlySearch /\ names = <<"search">>)
      /\ twinCount' =
           IF invoked THEN GuardCount(currentToolCall(Twin(tr)), twinLast, twinCount)
           ELSE twinCount
      /\ twinLast' =
           IF invoked THEN GuardLast(currentToolCall(Twin(tr)), twinLast) ELSE twinLast
      /\ IF invoked /\ GuardTripped(cur, lastToolCall, consecutiveToolCalls)
         THEN /\ Await("forced", t, tr, <<>>, <<>>)
              /\ forcedState' = "pending"
              /\ nForced' = nForced + 1
              /\ nSumm' = nSumm
         ELSE /\ AfterGuard(t, tr)
              /\ UNCHANGED forcedCall

\* ----------------------------------------------------------------- actions
\* mutant: the transcript is kept across queries
InitialTranscript_Carried(q) == transcript \o <<UserEntry(q)>>

\* let transcript = `User: ${userQuery}`
InitialTranscript(q) == <<UserEntry(q)>>

\* The query is read, the state is set up and the first turn starts
HandleInteractiveQuery(q) ==
  /\ pc \in {"menu", "done"}
  /\ pc' = "primary"
  /\ userQuery' = q
  /\ transcript' = InitialTranscript(q)
  /\ consecutiveToolCalls' = 0
  /\ lastToolCall' = ""
  /\ attempt' = 0
  /\ text' = <<>>
  /\ toolResults' = <<>>
  /\ finalText' = <<>>
  /\ outcome' = "none"
  /\ turn' = 1
  /\ calls' = 1
  /\ lastErr' = <<>>
  /\ forcedState' = "none"
  /\ nForced' = 0
  /\ nSumm' = 0
  /\ candidate' = <<>>
  /\ lastAnswer' = <<>>
  /\ prevNames' = <<>>
  /\ curRun' = 0
  /\ maxRun' = 0
  /\ onlySearch' = TRUE
  /\ twinLast' = ""
  /\ twinCount' = 0
  /\ ranWithoutResult' = FALSE
  /\ pending' = <<Awaited("primary")>>
  /\ waited' = <<>>
  /\ UNCHANGED regVars

\* The primary generateText call returns
PrimaryOk(t, tr) ==
  /\ pc = "primary"
  /\ PostLoop(t, tr)
  /\ lastAnswer' = <<>>
  /\ UNCHANGED <<userQuery, ranWithoutResult, regVars>>

\* The primary generateText call throws
PrimaryFail(err) ==
  /\ pc = "primary"
  /\ attempt' = attempt + 1
  /\ lastErr' = <<err>>
  /\ IF AbortOnError(err, attempt + 1)
     THEN /\ pc' = "done" /\ outcome' = "Aborted"
          /\ pending' = Settle(pending, <<>>)
          /\ waited' = waited
     ELSE /\ pc' = "backoff" /\ outcome' = outcome
          /\ pending' = Settle(pending, <<Awaited("backoff")>>)
          /\ waited' = Append(waited, Backoff(attempt + 1))
  /\ candidate' = <<>>
  /\ lastAnswer' = <<>>
  /\ UNCHANGED <<userQuery, transcript, turn, calls, locals, guard, forcedCall,
                 nSumm, ranWithoutResult, regVars>>

\* The backoff timer fires: the retry loop tests its condition and either
\* calls generateText again or is left
BackoffElapsed ==
  /\ pc = "backoff"
  /\ UNCHANGED regVars
  /\ lastAnswer' = <<>>
  /\ IF RetryLoopCondition(attempt)
     THEN /\ pc' = "primary"
          /\ calls' = calls + 1
          /\ candidate' = <<>>
          /\ lastErr' = <<>>
          /\ pending' = Settle(pending, <<Awaited("primary")>>)
          /\ UNCHANGED <<userQuery, outcome, transcript, turn, attempt, waited,
                         locals, guard, forcedCall, nSumm, ranWithoutResult>>
     ELSE /\ PostLoop(text, toolResults)
          /\ ranWithoutResult' = TRUE
          /\ UNCHANGED userQuery

\* The forced, tool-free generateText call returns
ForcedOk(forcedText) ==
  /\ pc = "forced"
  /\ lastAnswer' = <<>>
  /\ nForced' = nForced
  /\ IF forcedText # <<>>
     THEN /\ Return("LoopPrevented", text, toolResults, finalText, <<>>)
          /\ forcedState' = "text"
          /\ nSumm' = nSumm
     ELSE /\ AfterGuard(text, toolResults)
          /\ forcedState' = "empty"
  /\ UNCHANGED <<userQuery, guard, ranWithoutResult, regVars>>

\* An exception leaves processConversation, handleInteractiveQuery and main
Throw ==
  /\ pc' = "crashed"
  /\ outcome' = "Crashed"
  /\ candidate' = <<>>
  /\ lastAnswer' = <<>>
  /\ lastErr' = <<>>
  /\ pending' = Settle(pending, <<>>)
  /\ UNCHANGED <<userQuery, locals, frame, guard, nForced, nSumm, ranWithoutResult,
                 regVars>>

\* The forced generateText call throws
ForcedFail(err) ==
  /\ pc = "forced"
  /\ Throw
  /\ forcedState' = "threw"

\* The summarize generateText call returns
SummarizeOk(ft, tr) ==
  /\ pc = "summarize"
  /\ lastAnswer' = <<>>
  /\ lastToolCall' = SecondaryGuard(tr, lastToolCall, consecutiveToolCalls)[1]
  /\ consecutiveToolCalls' = SecondaryGuard(tr, lastToolCall, consecutiveToolCalls)[2]
  /\ IF ft # <<>>
     THEN LET kind == Classify(Trim(ft))
              newTranscript == transcript \o <<AssistantEntry(ft)>>
          IN  IF kind = "clarification"
              THEN Await("promptSumm", text, toolResults, ft, <<Trim(ft)>>)
              ELSE IF kind = "tooShort"
              THEN Recurse(newTranscript \o <<UserEntry(AutoElaborate)>>, <<Trim(ft)>>)
              ELSE Return("Done", text, toolResults, ft, <<Trim(ft)>>)
     ELSE NoTextOrDirect(text, toolResults)
  /\ UNCHANGED <<userQuery, prevNames, curRun, maxRun, onlySearch, twinLast,
                 twinCount, forcedCall,
                 nSumm, ranWithoutResult, regVars>>

\* The summarize generateText call throws
SummarizeFail(err) ==
  /\ pc = "summarize"
  /\ Throw
  /\ UNCHANGED forcedState

\* What the engine does with the human's reply to a clarification prompt
HandleAnswer(answer, updatedTranscript) ==
  /\ lastAnswer' = <<answer>>
  /\ IF IsStop(answer)
     THEN Return("Aborted", text, toolResults, finalText, <<>>)
     ELSE IF IsRun(answer)
     THEN Recurse(RunTranscript(updatedTranscript), <<>>)
     ELSE Recurse(updatedTranscript, <<>>)
  /\ UNCHANGED <<userQuery, guard, forcedCall, nSumm, ranWithoutResult, regVars>>

\* The human answers the clarification asked in the model's direct text
AnswerDirect(answer) ==
  /\ pc = "promptDirect"
  /\ HandleAnswer(answer, AnswerTranscript(transcript, Trim(text), answer))

\* The human answers the clarification asked in the summarize call's text
AnswerSummarize(answer) ==
  /\ pc = "promptSumm"
  /\ HandleAnswer(answer, AnswerTranscript(transcript, finalText, answer))

Next ==
  \/ \E q \in Queries : HandleInteractiveQuery(q)
  \/ \E r \in PrimaryResults : PrimaryOk(r.text, r.toolResults)
  \/ \E err \in Errors : PrimaryFail(err)
  \/ BackoffElapsed
  \/ \E ft \in ForcedTexts : ForcedOk(ft)
  \/ \E err \in Errors : ForcedFail(err)
  \/ \E ft \in Texts, tr \in SummarizeToolResults : SummarizeOk(ft, tr)
  \/ \E err \in Errors : SummarizeFail(err)
  \/ \E a \in Answers : AnswerDirect(a)
  \/ \E a \in Answers : AnswerSummarize(a)

Spec == Init /\ [][Next]_vars

\* The engine with a model that invokes the tools a and b in either order or
\* returns results without a name, never throws and never asks back
NextSignatures ==
  \/ \E q \in Queries : HandleInteractiveQuery(q)
  \/ \E r \in SignatureResults : PrimaryOk(r.text, r.toolResults)
  \/ \E ft \in ForcedTexts : ForcedOk(ft)
  \/ \E ft \in SignatureTexts, tr \in SummarizeToolResults : SummarizeOk(ft, tr)

SpecSignatures == Init /\ [][NextSignatures]_vars

\* The engine with a model that throws any of the errors, and otherwise
\* answers or returns nothing
NextRetry ==
  \/ \E q \in Queries : HandleInteractiveQuery(q)
  \/ \E r \in RetryResults : PrimaryOk(r.text, r.toolResults)
  \/ \E err \in RetryErrors : PrimaryFail(err)
  \/ BackoffElapsed

SpecRetry == Init /\ [][NextRetry]_vars

\* ------------------------------- the while-loop and the recursive version
\* Two earlier formulations of handleInteractiveQuery (src/helper.ts 634-788,
\* a while (true) loop that mutates transcript, and 1624-1788, a
\* processConversation that calls itself with the new transcript), each
\* with its own variables.  Neither has a retry loop or a fast path.

GOOGLE_MODEL == "gemini-2.5-flash"

\* JSON.stringify(toolResults), as far as it is told apart: the tool names
Stringify(tr) == "[" \o Join([i \in 1..Len(tr) |-> tr[i].toolName]) \o "]"

\* toolResults[0]?.result?.content?.[0]?.text || JSON.stringify(toolResults)
Output(tr) == IF firstOut(tr) # "" THEN firstOut(tr) ELSE Stringify(tr)

\* One generateText call: its kind, the model it is sent to, the transcript
\* its prompt is built on, and the tool output its prompt carries (<<>> when
\* the prompt carries none)
ModelCall(kind, model, tr, out) ==
  [kind |-> kind, model |-> model, transcript |-> tr, output |-> out]

\* return: the conversation is over
VersionEnds(s, out) == [s EXCEPT !.pc = "done", !.outcome = out]

\* --- the while-loop version
\* the top of while (true): the primary generateText on transcript
IterLoop(s, tr) ==
  [s EXCEPT !.pc = "primary", !.transcript = tr,
            !.text = <<>>, !.toolResults = <<>>, !.finalText = <<>>, !.reply = <<>>,
            !.issued = @ \o <<ModelCall("primary", "gemini-2.0-flash", tr, <<>>)>>]

\* userQuery is read, the variables are set up and the loop is entered
IterStart(q) == IterLoop(VersionIdle, <<UserEntry(q)>>)

\* if (!text) ... and the handling of the reply
IterTail(s) ==
  LET reply == Trim(s.text)
  IN  IF s.text = <<>>
      THEN IterLoop(s, s.transcript \o <<AssistantEntry(FinalNow)>>)
      ELSE IF isClarification(reply)
      THEN [s EXCEPT !.pc = "promptDirect", !.reply = reply]
      ELSE IF isTooShort(reply)
      THEN IterLoop(s, (s.transcript \o <<AssistantEntry(reply)>>)
                         \o <<UserEntry(AutoElaborate)>>)
      ELSE VersionEnds(s, "Done")

\* mutant: the summarize call is made for every turn that invoked tools
IterAfterGuard_AnyText(s) ==
  IF Len(s.toolResults) > 0
  THEN [s EXCEPT !.pc = "summarize",
                 !.issued = @ \o <<ModelCall("summarize", "gemini-2.0-flash",
                                             s.transcript, <<Output(s.toolResults)>>)>>]
  ELSE IterTail(s)

\* if (toolResults?.length && !text): the summarize generateText
IterAfterGuard(s) ==
  IF Len(s.toolResults) > 0 /\ s.text = <<>>
  THEN [s EXCEPT !.pc = "summarize",
                 !.issued = @ \o <<ModelCall("summarize", "gemini-2.0-flash",
                                             s.transcript, <<Output(s.toolResults)>>)>>]
  ELSE IterTail(s)

\* the primary call returns: loop detection, then the rest of the body
IterPrimary(s, r) ==
  LET got == [s EXCEPT !.text = r.text, !.toolResults = r.toolResults]
      cur == Join(calledToolNames(r.toolResults))
  IN  IF Len(r.toolResults) = 0 THEN IterAfterGuard(got)
      ELSE IF cur = s.lastToolCall
      THEN IF s.consecutiveToolCalls + 1 >= MAX_CONSECUTIVE_TOOL_CALLS
           THEN [got EXCEPT !.consecutiveToolCalls = @ + 1,
                            !.pc = "forced",
                            !.issued = @ \o <<ModelCall("forced", "gemini-2.0-flash",
                                                        s.transcript, <<>>)>>]
           ELSE IterAfterGuard([got EXCEPT !.consecutiveToolCalls = @ + 1])
      ELSE IterAfterGuard([got EXCEPT !.consecutiveToolCalls = 0,
                                      !.lastToolCall = cur])

\* the forced call returns
IterForced(s, forcedText) ==
  IF forcedText # <<>> THEN VersionEnds(s, "LoopPrevented") ELSE IterAfterGuard(s)

\* the summarize call returns
IterSummarize(s, ft) ==
  LET got == [s EXCEPT !.finalText = ft,
                       !.transcript = @ \o <<AssistantEntry(ft)>>]
  IN  IF ft = <<>> THEN IterTail(s)
      ELSE IF isClarification(Trim(ft)) THEN [got EXCEPT !.pc = "promptSumm"]
      ELSE IF isTooShort(Trim(ft))
      THEN IterLoop(got, got.transcript \o <<UserEntry(AutoElaborate)>>)
      ELSE VersionEnds(got, "Done")

\* the human answers a clarification
IterAnswer(s, answer) ==
  LET said == IF s.pc = "promptSumm"
              THEN s.transcript \o <<UserEntry(answer)>>
              ELSE (s.transcript \o <<AssistantEntry(s.reply)>>) \o <<UserEntry(answer)>>
  IN  IF IsStop(answer) THEN VersionEnds(s, "Aborted")
      ELSE IF IsRun(answer) THEN IterLoop(s, said \o <<AssistantEntry(BestNow)>>)
      ELSE IterLoop(s, said)

\* --- the self-recursive version
\* processConversation(currentTranscript): the primary generateText
RecProcessConversation(s, currentTranscript) ==
  [s EXCEPT !.pc = "primary", !.transcript = currentTranscript,
            !.text = <<>>, !.toolResults = <<>>, !.finalText = <<>>, !.reply = <<>>,
            !.issued = @ \o <<ModelCall("primary", GOOGLE_MODEL, currentTranscript, <<>>)>>]

\* userQuery is read, the variables are set up, processConversation(transcript)
RecStart(q) == RecProcessConversation(VersionIdle, <<UserEntry(q)>>)

\* if (!text) ... and the handling of the reply
RecTail(s) ==
  LET reply == Trim(s.text)
  IN  IF s.text = <<>>
      THEN RecProcessConversation(s, s.transcript \o <<AssistantEntry(FinalNow)>>)
      ELSE IF isClarification(reply)
      THEN [s EXCEPT !.pc = "promptDirect", !.reply = reply]
      ELSE IF isTooShort(reply)
      THEN RecProcessConversation(s, s.transcript \o <<AssistantEntry(reply),
                                                       UserEntry(AutoElaborate)>>)
      ELSE VersionEnds(s, "Done")

\* if (toolResults?.length && !text): the summarize generateText
RecAfterGuard(s) ==
  IF Len(s.toolResults) > 0 /\ s.text = <<>>
  THEN [s EXCEPT !.pc = "summarize",
                 !.issued = @ \o <<ModelCall("summarize", GOOGLE_MODEL,
                                             s.transcript, <<Output(s.toolResults)>>)>>]
  ELSE RecTail(s)

\* the primary call returns: loop detection, then the rest of the body
RecPrimary(s, r) ==
  LET got == [s EXCEPT !.text = r.text, !.toolResults = r.toolResults]
      cur == Join(calledToolNames(r.toolResults))
  IN  IF Len(r.toolResults) = 0 THEN RecAfterGuard(got)
      ELSE IF cur = s.lastToolCall
      THEN IF s.consecutiveToolCalls + 1 >= MAX_CONSECUTIVE_TOOL_CALLS
           THEN [got EXCEPT !.consecutiveToolCalls = @ + 1,
                            !.pc = "forced",
                            !.issued = @ \o <<ModelCall("forced", GOOGLE_MODEL,
                                                        s.transcript,
                                                        <<Output(r.toolResults)>>)>>]
           ELSE RecAfterGuard([got EXCEPT !.consecutiveToolCalls = @ + 1])
      ELSE RecAfterGuard([got EXCEPT !.consecutiveToolCalls = 0,
                                     !.lastToolCall = cur])

\* the forced call returns
RecForced(s, forcedText) ==
  IF forcedText # <<>> THEN VersionEnds(s, "LoopPrevented") ELSE RecAfterGuard(s)

\* the summarize call returns
RecSummarize(s, ft) ==
  LET newTranscript == s.transcript \o <<AssistantEntry(ft)>>
  IN  IF ft = <<>> THEN RecTail(s)
      ELSE IF isClarification(Trim(ft))
      THEN [s EXCEPT !.pc = "promptSumm", !.finalText = ft]
      ELSE IF isTooShort(Trim(ft))
      THEN RecProcessConversation(s, newTranscript \o <<UserEntry(AutoElaborate)>>)
      ELSE VersionEnds(s, "Done")

\* the human answers a clarification
RecAnswer(s, answer) ==
  LET newTranscript ==
        IF s.pc = "promptSumm"
        THEN (s.transcript \o <<AssistantEntry(s.finalText)>>) \o <<UserEntry(answer)>>
        ELSE s.transcript \o <<AssistantEntry(s.reply), UserEntry(answer)>>
  IN  IF IsStop(answer) THEN VersionEnds(s, "Aborted")
      ELSE IF IsRun(answer)
      THEN RecProcessConversation(s, newTranscript \o <<AssistantEntry(BestNow)>>)
      ELSE RecProcessConversation(s, newTranscript)

\* --- both versions on the same model results and human replies
\* Both wait for the same kind of input, and the transcript has room
BothAt(where) ==
  /\ iterative.pc = where
  /\ recursive.pc = where
  /\ Len(iterative.transcript) <= MaxTranscript
  /\ Len(recursive.transcript) <= MaxTranscript

OthersUnchanged == UNCHANGED <<convVars, mainVars>>

\* the same query is entered
BothStart(q) ==
  /\ iterative.pc \in {"idle", "done"}
  /\ recursive.pc \in {"idle", "done"}
  /\ iterative' = IterStart(q)
  /\ recursive' = RecStart(q)
  /\ OthersUnchanged

\* the primary call of both returns r
BothPrimary(r) ==
  /\ BothAt("primary")
  /\ iterative' = IterPrimary(iterative, r)
  /\ recursive' = RecPrimary(recursive, r)
  /\ OthersUnchanged

\* the forced call of both returns forcedText
BothForced(forcedText) ==
  /\ BothAt("forced")
  /\ iterative' = IterForced(iterative, forcedText)
  /\ recursive' = RecForced(recursive, forcedText)
  /\ OthersUnchanged

\* the summarize call of both returns ft
BothSummarize(ft) ==
  /\ BothAt("summarize")
  /\ iterative' = IterSummarize(iterative, ft)
  /\ recursive' = RecSummarize(recursive, ft)
  /\ OthersUnchanged

\* the human gives both the same answer
BothAnswer(answer) ==
  /\ iterative.pc \in {"promptDirect", "promptSumm"}
  /\ BothAt(iterative.pc)
  /\ iterative' = IterAnswer(iterative, answer)
  /\ recursive' = RecAnswer(recursive, answer)
  /\ OthersUnchanged

\* What the primary call of the two versions may return
VersionResults ==
  { Result(TextEmpty, <<>>), Result(TextShort, <<>>), Result(TextLong, <<>>),
    Result(TextClarify, <<>>),
    Result(TextEmpty, <<SearchResult>>), Result(TextShort, <<SearchResult>>) }

NextVersions ==
  \/ \E q \in Queries : BothStart(q)
  \/ \E r \in VersionResults : BothPrimary(r)
  \/ \E ft \in ForcedTexts : BothForced(ft)
  \/ \E ft \in Texts : BothSummarize(ft)
  \/ \E a \in Answers : BothAnswer(a)

SpecVersions == Init /\ [][NextVersions]_vars

\* ------------------------------------------------------- main's menu loop
\* refreshServerData: the tools main keeps for the selected scope
RefreshedTools(server, client, listing) ==
  IF server = AllServers
  THEN aggregateAllTools(listing)
  ELSE Contribution(listing, client)

\* handleInteractiveQuery(tools, opts) up to buildToolSet
StartQuery(ts, multi, map, client, listing) ==
  /\ mpc' = "query"
  /\ qTools' = ts
  /\ qMulti' = multi
  /\ qToolClientMap' = map
  /\ qMcp' = client
  /\ toolSet' = buildToolSet(ts)
  /\ qListing' = listing
  /\ lastCall' = NoCall

\* const { allTools, toolClientMap } = await aggregateToolsWithMapping(clients);
\* await handleInteractiveQuery(allTools, { multi: true, toolClientMap })
StartMultiQuery(listing) ==
  LET agg == aggregateToolsWithMapping(listing)
  IN  StartQuery(agg.allTools, TRUE, agg.toolClientMap, "", listing)

\* main: the first server selection, mcp and the first refreshServerData
SelectServer(server, listing) ==
  /\ mpc = "start"
  /\ mpc' = "menu"
  /\ selectedServer' = server
  /\ mcp' = IF server = AllServers THEN ClientNames[1] ELSE server
  /\ tools' = RefreshedTools(server, mcp', listing)
  /\ toolsListing' = listing
  /\ toolsScope' = server
  /\ UNCHANGED <<queryVars, lastCall, convVars, versions>>

\* case "Switch Server"
SwitchServer(server, listing) ==
  /\ mpc = "menu"
  /\ selectedServer' = server
  /\ IF server = AllServers
     THEN /\ StartMultiQuery(listing)
          /\ UNCHANGED <<mcp, refreshed>>
     ELSE /\ mcp' = server
          /\ tools' = RefreshedTools(server, server, listing)
          /\ toolsListing' = listing
          /\ toolsScope' = server
          /\ UNCHANGED <<mpc, queryVars, lastCall>>
  /\ UNCHANGED <<convVars, versions>>

\* case "Query"
MenuQuery(listing) ==
  /\ mpc = "menu"
  /\ IF selectedServer = AllServers
     THEN StartMultiQuery(listing)
     ELSE StartQuery(tools, FALSE, EmptyMap, mcp, NoListing)
  /\ UNCHANGED <<selectedServer, mcp, refreshed, convVars, versions>>

\* During a model call the model invokes tool name of the tool set: execute
\* runs the chart tool, or callTool on execClient
InvokeTool(name, args) ==
  /\ mpc = "query"
  /\ name \in DOMAIN toolSet
  /\ lastCall' =
       [name |-> name,
        client |-> IF toolSet[name].local THEN "local"
                   ELSE ExecClient(name, qMulti, qToolClientMap, qMcp),
        description |-> toolSet[name].description,
        local |-> toolSet[name].local,
        given |-> args,
        request |-> IF toolSet[name].local THEN CallToolRequest("", <<>>)
                    ELSE CallToolRequest(name, args)]
  /\ UNCHANGED <<mpc, selectedServer, mcp, refreshed, queryVars, convVars, versions>>

\* tools.find(t => t.name === toolName): the first descriptor with the name
Find(ts, name) ==
  ts[CHOOSE i \in 1..Len(ts) :
       /\ ts[i].name = name
       /\ \A j \in 1..(i - 1) : ts[j].name # name]

\* case "Tools": a tool of main's tools is picked by name and handleTool
\* calls it on mcp with the arguments the user enters
MenuTools(name, args) ==
  /\ mpc = "menu"
  /\ tools # <<>>
  /\ \E i \in 1..Len(tools) : tools[i].name = name
  /\ lastCall' =
       [name |-> Find(tools, name).name,
        client |-> mcp,
        description |-> Find(tools, name).description,
        local |-> FALSE,
        given |-> args,
        request |-> CallToolRequest(Find(tools, name).name, args)]
  /\ UNCHANGED <<mpc, selectedServer, mcp, refreshed, queryVars, convVars, versions>>

\* handleInteractiveQuery returns to the menu loop
QueryReturns ==
  /\ mpc = "query"
  /\ mpc' = "menu"
  /\ qTools' = <<>>
  /\ qMulti' = FALSE
  /\ qToolClientMap' = EmptyMap
  /\ qMcp' = ""
  /\ toolSet' = buildToolSet(<<>>)
  /\ qListing' = NoListing
  /\ lastCall' = NoCall
  /\ UNCHANGED <<selectedServer, mcp, refreshed, convVars, versions>>

\* Every name a tool set may hold
ToolNames == {"x", "t1", "t2"} \cup {ChartToolNames[i] : i \in 1..Len(ChartToolNames)}

NextRegistry ==
  \/ \E s \in ServerChoices, l \in Listings : SelectServer(s, l)
  \/ \E s \in ServerChoices, l \in Listings : SwitchServer(s, l)
  \/ \E l \in Listings : MenuQuery(l)
  \/ \E n \in ToolNames, args \in ToolArgs : MenuTools(n, args)
  \/ \E n \in ToolNames, args \in ToolArgs : InvokeTool(n, args)
  \/ QueryReturns

\* The menu loop of main, with the tool invocations of its queries
SpecRegistry == Init /\ [][NextRegistry]_vars

\* ================================================================== claims
Prompts == {"promptDirect", "promptSumm"}

\* number of entries of transcript tr equal to e
CountEntry(tr, e) == Cardinality({i \in 1..Len(tr) : tr[i] = e})

\* number of 'User:' entries of transcript tr
CountUser(tr) == Cardinality({i \in 1..Len(tr) : tr[i].tag = "User"})

\* number of words of a text
WordCount(t) == Cardinality({i \in 1..Len(t) : t[i] # Blank})

\* C1 (as claimed): when every primary result of the conversation invokes
\* exactly the tool "search", the conversation has ended LoopPrevented by its
\* third turn: no fourth turn (no fourth primary call sequence) is started.
Claim_C1 == onlySearch => turn <= 3

\* C2 (as claimed): once the forced call has returned, with text or with an
\* empty result, the conversation is over with outcome LoopPrevented: the
\* engine is not in a summarize call, at a prompt or in another turn.
Claim_C2 ==
  forcedState \in {"text", "empty"} => pc = "done" /\ outcome = "LoopPrevented"

\* C3: a primary call is attempted at most 3 times per turn; a third failure
\* ends the conversation Aborted after exactly 3 calls; a transient failure
\* before the third is followed by a backoff and a retry; the code after the
\* retry loop runs only with a result, obtained by the call after the
\* failures so far (the third call when two failed).
Thm_C3 ==
  /\ calls <= 3
  /\ (lastErr # <<>> /\ calls = 3 => pc = "done" /\ outcome = "Aborted")
  /\ (lastErr # <<>> /\ lastErr[1] \in {ErrOverloaded, ErrStatus503} /\ calls < 3
        => pc = "backoff")
  /\ ~ranWithoutResult
  /\ (pc \in {"forced", "summarize"} \cup Prompts => calls = attempt + 1)

\* C3 witness: two transient failures, then the third call's clarifying
\* text is interpreted and the human is prompted.
Witness_C3 ==
  pc = "promptDirect" /\ calls = 3 /\ attempt = 2 /\ text = TextClarify

\* C4: a fatal failure of a primary call ends the conversation Aborted in
\* the step where it occurs: no backoff, no call in flight, no prompt.
Thm_C4 ==
  lastErr = <<ErrFatal>> =>
    /\ pc = "done"
    /\ outcome = "Aborted"
    /\ calls = attempt

\* C4 witness: a fatal failure on the first attempt, two attempts left.
Witness_C4 == lastErr = <<ErrFatal>> /\ attempt = 1 /\ pc = "done"

\* C5 (as claimed): no model-call failure escapes handleInteractiveQuery as
\* an exception.
Claim_C5 == pc # "crashed"

\* C6: a candidate reply classified as a clarification leaves the engine at
\* the human prompt (no model call in flight); a reply other than /stop and
\* /run appends exactly one 'User:' entry, holding that reply, as the last
\* entry, and starts exactly one new turn.
Thm_C6 ==
  /\ [](candidate # <<>> /\ isClarification(candidate[1]) => pc \in Prompts)
  /\ [][ (pc \in Prompts /\ lastAnswer' # <<>>
            /\ lastAnswer'[1] \notin {<<"/stop">>, <<"/run">>})
         => /\ pc' = "primary"
            /\ turn' = turn + 1
            /\ calls' = 1
            /\ nSumm' = nSumm /\ nForced' = nForced
            /\ CountUser(transcript') = CountUser(transcript) + 1
            /\ transcript'[Len(transcript')] = UserEntry(lastAnswer'[1])
            /\ SubSeq(transcript', 1, Len(transcript)) = transcript ]_vars

\* C6 witness: the human replied "daily" and the next turn has started.
Witness_C6 ==
  /\ lastAnswer = << <<"daily">> >>
  /\ pc = "primary"
  /\ transcript[Len(transcript)] = UserEntry(<<"daily">>)

\* C7: a /stop reply at either clarification prompt ends the conversation
\* Aborted and leaves the transcript and the call counts as they were.
Thm_C7 ==
  [][ (pc \in Prompts /\ lastAnswer' = << <<"/stop">> >>)
      => /\ pc' = "done"
         /\ outcome' = "Aborted"
         /\ transcript' = transcript
         /\ turn' = turn /\ calls' = calls
         /\ nSumm' = nSumm /\ nForced' = nForced ]_vars

\* C7 witness: /stop was given at the prompt of the summarize path.
Witness_C7 ==
  /\ lastAnswer = << <<"/stop">> >>
  /\ pc = "done"
  /\ finalText = TextClarify

\* C8: a classified candidate reply that is no clarification and has fewer
\* than 12 words appends the elaboration instruction once, as the last
\* entry, and starts one new turn with no prompt; with 12 words or more the
\* conversation ends Done in that step, the transcript unchanged.
Thm_C8 ==
  [][ (candidate' # <<>> /\ ~isClarification(candidate'[1]))
      => IF WordCount(candidate'[1]) < 12
         THEN /\ pc' = "primary"
              /\ turn' = turn + 1
              /\ lastAnswer' = <<>>
              /\ CountEntry(transcript', UserEntry(AutoElaborate))
                   = CountEntry(transcript, UserEntry(AutoElaborate)) + 1
              /\ transcript'[Len(transcript')] = UserEntry(AutoElaborate)
              /\ SubSeq(transcript', 1, Len(transcript)) = transcript
         ELSE /\ pc' = "done"
              /\ outcome' = "Done"
              /\ transcript' = transcript
              /\ turn' = turn
              /\ nSumm' = nSumm /\ nForced' = nForced ]_vars

\* C8 witness: an eleven-word reply was classified and the next turn started
\* on the elaboration instruction.
Witness_C8 ==
  /\ candidate = <<Rep("ok", 11)>>
  /\ pc = "primary"
  /\ transcript[Len(transcript)] = UserEntry(AutoElaborate)

\* C9: while no run of identical consecutive signatures among the
\* tool-invoking turns is longer than 2, consecutiveToolCalls is below 3, no
\* forced call has been issued and the outcome is not LoopPrevented.
Thm_C9 ==
  maxRun <= 2 =>
    /\ consecutiveToolCalls < 3
    /\ nForced = 0
    /\ forcedState = "none"
    /\ outcome # "LoopPrevented"

\* C9 witness: four turns, the last two invoking search after a different
\* signature, the longest run being 2.
Witness_C9 ==
  /\ turn = 4
  /\ maxRun = 2 /\ curRun = 2
  /\ lastToolCall = "search"
  /\ consecutiveToolCalls = 1
  /\ pc = "summarize"

\* C10: in a query over all servers, a name that is listed by both servers
\* and is no chart tool has the later server's descriptor as its entry of the
\* tool set, and every invocation of it goes to the later server.
Thm_C10 ==
  (mpc = "query" /\ qMulti) =>
    \A n \in ToolNames \ {ChartToolNames[i] : i \in 1..Len(ChartToolNames)} :
      \A i, j \in 1..Len(ClientNames) :
        ( /\ i < j
          /\ \A k \in (j + 1)..Len(ClientNames) :
               \A m \in 1..Len(Contribution(qListing, ClientNames[k])) :
                 Contribution(qListing, ClientNames[k])[m].name # n
          /\ \E m \in 1..Len(Contribution(qListing, ClientNames[i])) :
               Contribution(qListing, ClientNames[i])[m].name = n
          /\ \E m \in 1..Len(Contribution(qListing, ClientNames[j])) :
               Contribution(qListing, ClientNames[j])[m].name = n )
        => /\ n \in DOMAIN toolSet
           /\ toolSet[n] = [description |-> Lists(ClientNames[j], n).description,
                            local |-> FALSE]
           /\ (lastCall.name = n => lastCall.client = ClientNames[j])

\* C10 witness: both servers list x and an invocation of x went to the
\* second one.
Witness_C10 ==
  /\ mpc = "query" /\ qMulti
  /\ qListing["Brave Search"] = Listed(<<Lists("Brave Search", "x")>>)
  /\ qListing["Alphavantage"] = Listed(<<Lists("Alphavantage", "x")>>)
  /\ lastCall.name = "x"
  /\ lastCall.client = "Alphavantage"
  /\ lastCall.description = Lists("Alphavantage", "x").description

\* names of the tools of a list of descriptors
NamesOf(ts) == {ts[i].name : i \in 1..Len(ts)}

\* the descriptors of a list
DescriptorsOf(ts) == {ts[i] : i \in 1..Len(ts)}

\* C11: in a running query, a chart-tool name for which the query's tools
\* hold a server's descriptor has the local chart tool as its entry of the
\* tool set (the local description and the local execute), and an
\* invocation of it reaches no server.
Thm_C11 ==
  mpc = "query" =>
    \A n \in NamesOf(qTools) :
      (IsChartTool(n) /\ \E c \in ClientSet : Lists(c, n) \in DescriptorsOf(qTools)) =>
        /\ n \in DOMAIN toolSet
        /\ toolSet[n] = [description |-> ChartDescription(n), local |-> TRUE]
        /\ toolSet[n].description \notin
             {Lists(c, n).description : c \in ClientSet}
        /\ (lastCall.name = n => lastCall.client = "local" /\ lastCall.local)

\* C11 witness: the query's tools hold a server's descriptor of create_chart
\* and create_chart was invoked.
Witness_C11 ==
  /\ mpc = "query"
  /\ Lists("Alphavantage", "create_chart") \in DescriptorsOf(qTools)
  /\ lastCall.name = "create_chart"
  /\ lastCall.client = "local"

\* the tools listed by server b followed by the chart tools
OnlyFrom(listing, b) == listing[b].tools \o getChartToolsAsTools

\* C12: when the listTools of one server fails and the other's succeeds, the
\* aggregation completes: the failing server contributes no tool, the tools
\* are exactly those the other server listed (followed by the local chart
\* tools), and each of their names is mapped to that server and to nothing
\* else; the same holds for the tools main keeps for "All Servers".
Thm_C12 ==
  \A a, b \in ClientSet :
    /\ (mpc = "query" /\ qMulti /\ ~qListing[a].ok /\ qListing[b].ok) =>
         /\ qTools = OnlyFrom(qListing, b)
         /\ DOMAIN qToolClientMap = NamesOf(qListing[b].tools)
         /\ \A n \in DOMAIN qToolClientMap : qToolClientMap[n] = b
         /\ \A n \in NamesOf(qListing[b].tools) :
              lastCall.name = n /\ ~IsChartTool(n) => lastCall.client = b
    /\ (toolsScope = AllServers /\ ~toolsListing[a].ok /\ toolsListing[b].ok) =>
         tools = OnlyFrom(toolsListing, b)

\* C12 witness: the first server's listTools failed, the second listed t1
\* and t2, the query runs and t2 was invoked on the second server.
Witness_C12 ==
  /\ mpc = "query" /\ qMulti
  /\ qListing["Brave Search"] = ListFails
  /\ qListing["Alphavantage"] = Listed(<<Lists("Alphavantage", "t1"), Lists("Alphavantage", "t2")>>)
  /\ Len(qTools) = 2 + Len(ChartToolNames)
  /\ lastCall.name = "t2" /\ lastCall.client = "Alphavantage"

\* C13: the signature kept by the loop guard is the comma-joined list of
\* the last tool-invoking turn's tool names in call order ("a,b" for a then
\* b, "b,a" for b then a), and a turn whose named calls differ from the
\* previous tool-invoking turn's, be it only in their order, leaves
\* consecutiveToolCalls at 0: alternating a,b and b,a never increments it.
Thm_C13 ==
  /\ prevNames # <<>> => lastToolCall = Join(prevNames[1])
  /\ prevNames = << <<"a", "b">> >> => lastToolCall = "a,b"
  /\ prevNames = << <<"b", "a">> >> => lastToolCall = "b,a"
  /\ (prevNames # <<>> /\ prevNames[1] # <<>> /\ curRun = 1)
       => consecutiveToolCalls = 0
  /\ (maxRun = 1 /\ prevNames # <<>> /\ prevNames[1] # <<>>) => nForced = 0

\* C13 witness: four turns alternating a,b and b,a, the fourth just
\* processed, the counter at 0.
Witness_C13 ==
  /\ turn = 4 /\ pc = "summarize"
  /\ toolResults = <<ResultB, ResultA>>
  /\ lastToolCall = "b,a"
  /\ maxRun = 1
  /\ nSumm = 4
  /\ consecutiveToolCalls = 0

\* C14 (as claimed): processConversation returns only with one of the
\* outcomes Aborted, LoopPrevented and Done.
Claim_C14 == pc = "done" => outcome \in {"Aborted", "LoopPrevented", "Done"}

\* C14 (amended): processConversation returns only after a fatal or
\* exhausted failure of the primary call (Aborted), after /stop at a
\* clarification prompt (Aborted), after the forced call of a tripped guard
\* returned text (LoopPrevented), after a candidate reply that is no
\* clarification and has at least 12 words (Done), or on the visualization
\* fast path: a visualization-only query and a tool result whose first
\* output holds a URL.  It is left otherwise only by the exception of a
\* forced or summarize call.
Thm_C14 ==
  /\ pc = "done" =>
       \/ /\ outcome = "Aborted"
          /\ \/ lastErr # <<>> /\ AbortOnError(lastErr[1], attempt)
             \/ lastAnswer = << <<"/stop">> >> /\ isClarification(
                   IF finalText # <<>> THEN finalText ELSE text)
       \/ /\ outcome = "LoopPrevented"
          /\ forcedState = "text"
          /\ consecutiveToolCalls >= MAX_CONSECUTIVE_TOOL_CALLS
       \/ /\ outcome = "Done"
          /\ candidate # <<>>
          /\ ~isClarification(candidate[1])
          /\ WordCount(candidate[1]) >= 12
       \/ /\ outcome = "FastPath"
          /\ visualizationOnlyQuery(userQuery)
          /\ toolResults # <<>>
          /\ HasUrl(toolResults[1].out)
  /\ pc = "crashed" => forcedState = "threw" \/ (nSumm > 0 /\ text = <<>>)

\* C14 witness: in the second turn of a conversation a chart tool's URL
\* ended a visualization-only query on the fast path.
Witness_C14 ==
  /\ pc = "done" /\ outcome = "FastPath"
  /\ turn = 2
  /\ userQuery = <<"draw", "a", "Chart">>
  /\ toolResults = <<ChartResult>>

ModelCalls == {Awaited("primary"), Awaited("forced"), Awaited("summarize")}

\* C15: at most one awaited operation (a model call, the backoff timer or
\* the human prompt) is unsettled at any time, so never two model calls;
\* the operation in flight is the one the engine is suspended on, and when
\* a turn starts its primary call nothing of the previous turn is in flight.
Thm_C15 ==
  /\ Len(pending) <= 1
  /\ Cardinality({i \in 1..Len(pending) : pending[i] \in ModelCalls}) <= 1
  /\ pc \in {"primary", "forced", "summarize", "backoff"} \cup Prompts
       => pending = <<Awaited(pc)>>
  /\ pc \in {"menu", "done", "crashed"} => pending = <<>>
  /\ (pc = "primary" /\ calls = 1) => pending = <<"generateText">>

\* C15 witness: the summarize call of the second turn is in flight, after
\* that turn's primary call failed once, waited and was retried.
Witness_C15 ==
  /\ turn = 2 /\ pc = "summarize"
  /\ attempt = 1
  /\ pending = <<"generateText (summarize)">>

\* C16: an invocation of a remote tool during a query is a callTool on the
\* owning server with the tool's name and the very arguments the model
\* passed: over all servers the client toolClientMap holds for the name, a
\* server whose listTools gave that name; in a single-server query the
\* selected server, which listed the name when main read its tools.
Thm_C16 ==
  (mpc = "query" /\ lastCall.name # "" /\ ~lastCall.local) =>
    /\ lastCall.request = [name |-> lastCall.name, arguments |-> lastCall.given]
    /\ lastCall.client \in ClientSet
    /\ IF qMulti
       THEN /\ lastCall.name \in DOMAIN qToolClientMap
            /\ lastCall.client = qToolClientMap[lastCall.name]
            /\ lastCall.name \in NamesOf(Contribution(qListing, lastCall.client))
       ELSE /\ lastCall.client = selectedServer
            /\ lastCall.client = mcp
            /\ lastCall.name \in NamesOf(Contribution(toolsListing, lastCall.client))

\* C16 witness: in a single-server query on the second server t1 was invoked
\* with arguments, which reached that server's callTool.
Witness_C16 ==
  /\ mpc = "query" /\ ~qMulti
  /\ selectedServer = "Alphavantage"
  /\ toolsListing["Brave Search"] = Listed(<<Lists("Brave Search", "x")>>)
  /\ lastCall.name = "t1"
  /\ lastCall.client = "Alphavantage"
  /\ lastCall.request = CallToolRequest("t1", << <<"symbol", "AAPL">> >>)

\* C17 (as claimed): a conversation holds at most one forced call, and once
\* consecutiveToolCalls has reached the threshold a forced call was issued.
Claim_C17 ==
  /\ nForced <= 1
  /\ consecutiveToolCalls >= MAX_CONSECUTIVE_TOOL_CALLS => nForced >= 1

\* C18 (as claimed): a tool-invoking turn whose signature is empty does not
\* increment consecutiveToolCalls but resets it: while the last
\* tool-invoking turn is one without tool names, the counter is 0.
Claim_C18 == prevNames = << <<>> >> => consecutiveToolCalls = 0

\* C19 (as claimed): when the guard tripped on a turn that also carries
\* direct text, the return of the forced call ends the conversation
\* LoopPrevented and the turn's text is not classified: no clarification
\* prompt, no elaboration instruction and new turn, no Done.
Claim_C19 ==
  [][ (pc = "forced" /\ text # <<>> /\ toolResults # <<>>
         /\ forcedState' \in {"text", "empty"})
      => /\ pc' = "done"
         /\ outcome' = "LoopPrevented"
         /\ candidate' = <<>>
         /\ transcript' = transcript
         /\ turn' = turn ]_vars

\* C20: a candidate reply that matches the clarification pattern is handled
\* as a clarification whatever its length: the step that classifies it
\* suspends at the human prompt of its path (direct text or summarize) and
\* neither appends the elaboration instruction nor starts a turn nor ends
\* the conversation.
Thm_C20 ==
  [][ (candidate' # <<>> /\ isClarification(candidate'[1]))
      => /\ pc' = (IF pc = "summarize" THEN "promptSumm" ELSE "promptDirect")
         /\ transcript' = transcript
         /\ turn' = turn
         /\ outcome' = outcome
         /\ pending' = <<"input">> ]_vars

\* C20 witness: a clarifying reply of fewer than 12 words came from the
\* summarize call and the human is being prompted.
Witness_C20 ==
  /\ pc = "promptSumm"
  /\ candidate = <<TextClarify>>
  /\ isTooShort(candidate[1])
  /\ WordCount(candidate[1]) = 6

\* C21 (as claimed): the text returned by the summarize call is handled as
\* the same text returned directly by the primary call would be: the same
\* classification, the same next step and the same entries appended to the
\* transcript (the reply as the direct path records it, then the
\* elaboration instruction or the human's answer).
Claim_C21 ==
  [][ /\ (pc = "summarize" /\ candidate' # <<>>) =>
           LET reply == candidate'[1]
               kind == Classify(reply)
           IN  /\ kind = "clarification" =>
                    pc' = "promptSumm" /\ transcript' = transcript
               /\ kind = "tooShort" =>
                    /\ pc' = "primary"
                    /\ transcript' = ElaborateTranscript(transcript, reply)
               /\ kind = "final" =>
                    pc' = "done" /\ outcome' = "Done" /\ transcript' = transcript
      /\ (pc = "promptSumm" /\ lastAnswer' # <<>> /\ ~IsStop(lastAnswer'[1])) =>
           SubSeq(transcript', 1, Len(transcript) + 2)
             = AnswerTranscript(transcript, Trim(finalText), lastAnswer'[1]) ]_vars

\* a step in which the summarize call returned no text
SummarizeGaveNothing == pc = "summarize" /\ pc' # "crashed" /\ candidate' = <<>>

\* a step in which the primary call returned neither text nor tool results:
\* it did not fail, classified no reply, issued no summarize or forced call
\* and did not end on the fast path
PrimaryGaveNothing ==
  /\ pc = "primary" /\ lastErr' = <<>> /\ candidate' = <<>>
  /\ nSumm' = nSumm /\ nForced' = nForced /\ outcome' # "FastPath"

\* C22: when the summarize call of a turn with tool results and no text
\* returns no text, and when the primary call returns neither text nor tool
\* results, the step appends the one instruction demanding the final answer
\* and starts a new turn: no human prompt, no end of the conversation.
Thm_C22 ==
  [][ (SummarizeGaveNothing \/ PrimaryGaveNothing)
      => /\ pc' = "primary"
         /\ turn' = turn + 1 /\ calls' = 1
         /\ transcript' = transcript \o <<AssistantEntry(FinalNow)>>
         /\ CountEntry(transcript', AssistantEntry(FinalNow))
              = CountEntry(transcript, AssistantEntry(FinalNow)) + 1
         /\ lastAnswer' = <<>>
         /\ outcome' = outcome
         /\ pending' = <<"generateText">> ]_vars

\* C22 witness: the first turn had tool results, no text and an empty
\* summarize reply; the second turn runs on the transcript with the
\* instruction.
Witness_C22 ==
  /\ turn = 2 /\ pc = "primary"
  /\ nSumm = 1
  /\ prevNames = << <<"search">> >>
  /\ transcript = <<UserEntry(userQuery), AssistantEntry(FinalNow)>>

\* C23: lastToolCall and consecutiveToolCalls change only in the step that
\* processes a returned primary call (or when a new query sets them up): the
\* return of the summarize call, of the forced call, a human reply, a failed
\* primary call and the backoff leave both as they are, whatever tools the
\* summarize call invoked.
Thm_C23 ==
  [][ /\ pc \in {"summarize", "forced", "backoff"} \cup Prompts
           => UNCHANGED <<lastToolCall, consecutiveToolCalls>>
      /\ (pc = "primary" /\ lastErr' # <<>>)
           => UNCHANGED <<lastToolCall, consecutiveToolCalls>>
      /\ (lastToolCall' # lastToolCall \/ consecutiveToolCalls' # consecutiveToolCalls)
           => \/ pc = "primary" /\ prevNames' # <<>> /\ lastToolCall' = Join(prevNames'[1])
              \/ pc = "done" /\ turn' = 1 ]_vars

\* C23 witness: two turns invoked search and each had its summarize call;
\* after the second summarize call the counter is 1, the second primary
\* call's count.
Witness_C23 ==
  /\ turn = 3 /\ pc = "primary" /\ calls = 1
  /\ nSumm = 2
  /\ lastToolCall = "search"
  /\ consecutiveToolCalls = 1
  /\ maxRun = 2

\* C24 (as claimed): a /run reply at a clarification prompt starts a new
\* turn on the transcript extended by the instruction demanding the best
\* possible final answer, and is not itself appended as a user turn.
Claim_C24 ==
  [][ (pc \in Prompts /\ lastAnswer' = << <<"/run">> >>)
      => /\ pc' = "primary"
         /\ turn' = turn + 1
         /\ transcript'[Len(transcript')] = AssistantEntry(BestNow)
         /\ CountUser(transcript') = CountUser(transcript)
         /\ UserEntry(<<"/run">>) \notin {transcript'[i] : i \in 1..Len(transcript')} ]_vars

\* the errors the claim calls transient, and those it calls fatal
ClaimedTransient ==
  {ErrOverloaded, ErrUnavailable, ErrMessage503, ErrStatus503, ErrMaxRetries}
ClaimedFatal == {ErrFatal, ErrStatus500, ErrNoMessage}

\* C25: a failed primary call that is not the third is followed by a
\* backoff and a retry exactly when the error's message holds overloaded,
\* UNAVAILABLE or 503 in any case, or its status code is 503, or its reason
\* is maxRetriesExceeded; any other error, one without a message included,
\* ends the conversation Aborted at once.
Thm_C25 ==
  lastErr # <<>> =>
    /\ lastErr[1] \in ClaimedTransient \cup ClaimedFatal
    /\ (lastErr[1] \in ClaimedTransient /\ attempt < 3) => pc = "backoff"
    /\ lastErr[1] \in ClaimedFatal =>
         pc = "done" /\ outcome = "Aborted" /\ calls = attempt
    /\ pc = "backoff" => lastErr[1] \in ClaimedTransient

\* C25 witness: the first failure carried only the reason
\* maxRetriesExceeded and was retried; the second has no message and ended
\* the conversation.
Witness_C25 ==
  /\ lastErr = <<ErrNoMessage>>
  /\ attempt = 2 /\ calls = 2
  /\ waited = <<600>>
  /\ pc = "done" /\ outcome = "Aborted"

\* C26: the delays waited in a turn are 600 ms after the first failed
\* attempt and 1200 ms after the second, one per retry: none before the
\* first attempt, none after the third failure or after a fatal error.
Thm_C26 ==
  /\ Len(waited) <= 2
  /\ \A k \in 1..Len(waited) : waited[k] = k * 600
  /\ pc = "backoff" => Len(waited) = attempt /\ calls = attempt
  /\ pc \notin {"backoff", "menu"} => Len(waited) = calls - 1
  /\ (pc = "done" /\ lastErr # <<>>) => Len(waited) = attempt - 1

\* C26 witness: the third attempt failed after waits of 600 and 1200 ms and
\* the conversation ended with no further wait.
Witness_C26 ==
  /\ waited = <<600, 1200>>
  /\ attempt = 3 /\ calls = 3
  /\ lastErr = <<ErrMessage503>>
  /\ pc = "done" /\ outcome = "Aborted"

\* C27: no count of turns stops the recursion.  In every turn, whatever
\* its number, a primary call that returns nothing or a short reply that
\* is no clarification starts the next turn on a longer transcript and
\* leaves the loop guard and the forced call as they are: neither the guard
\* nor a failure nor /stop ends a conversation of such turns, and no turn
\* is its last.
Thm_C27 ==
  [][ (pc = "primary" /\ lastErr' = <<>> /\ nSumm' = nSumm
        /\ nForced' = nForced /\ outcome' # "FastPath"
        /\ (candidate' = <<>> \/ Classify(candidate'[1]) = "tooShort"))
      => /\ pc' = "primary"
         /\ turn' = turn + 1
         /\ outcome' = outcome
         /\ Len(transcript') > Len(transcript)
         /\ UNCHANGED <<nForced, forcedState>> ]_vars

\* C27 witness: a sixth turn runs after five turns that each returned
\* nothing; no tool was invoked and the guard never counted.
Witness_C27 ==
  /\ turn = 6 /\ pc = "primary"
  /\ prevNames = <<>> /\ consecutiveToolCalls = 0 /\ nForced = 0
  /\ CountEntry(transcript, AssistantEntry(FinalNow)) = 5

\* C28: a run whose turns invoke the same tools in the same order with
\* other arguments and other results has the same lastToolCall and the same
\* consecutiveToolCalls after every turn, and so trips the guard on the
\* same turn.
Thm_C28 ==
  /\ twinLast = lastToolCall
  /\ twinCount = consecutiveToolCalls
  /\ pc = "forced" => twinCount >= MAX_CONSECUTIVE_TOOL_CALLS
  /\ toolResults # <<>> => Twin(toolResults) # toolResults

\* C28 witness: the fourth turn invoking search tripped the guard, and the
\* twin run, whose searches had other arguments and results, counts 3 too.
Witness_C28 ==
  /\ pc = "forced" /\ turn = 4
  /\ toolResults = <<SearchResult>>
  /\ Twin(toolResults)[1].out = "other rows"
  /\ consecutiveToolCalls = 3 /\ twinCount = 3
  /\ twinLast = "search"

\* C29: the step that starts a query, the first of the process or one after
\* an earlier conversation has ended, leaves a transcript that holds only
\* the query, an empty lastToolCall, consecutiveToolCalls at 0 and the
\* first primary call of turn 1 in flight: nothing of the earlier
\* conversation is kept.
Thm_C29 ==
  [][ (pc \in {"menu", "done"} /\ pc' # pc)
      => /\ pc' = "primary"
         /\ userQuery' \in Queries
         /\ transcript' = <<UserEntry(userQuery')>>
         /\ Len(transcript') = 1
         /\ lastToolCall' = ""
         /\ consecutiveToolCalls' = 0
         /\ turn' = 1 /\ attempt' = 0 /\ waited' = <<>>
         /\ text' = <<>> /\ toolResults' = <<>> ]_vars

\* C29 witness: a conversation has just started on the chart query and its
\* first primary call is in flight.
Witness_C29 ==
  /\ pc = "primary" /\ turn = 1 /\ calls = 1
  /\ transcript = <<UserEntry(<<"draw", "a", "Chart">>)>>
  /\ lastToolCall = "" /\ consecutiveToolCalls = 0

\* C30: whenever the menu is shown, tools holds the tools of the currently
\* selected scope: they were read for the selection that is current (the
\* selected server's list, or the aggregate of all servers for
\* 'All Servers'), never for the selection before it.
Claim_C30 ==
  mpc = "menu" =>
    /\ toolsScope = selectedServer
    /\ tools = RefreshedTools(selectedServer, mcp, toolsListing)

\* the descriptors of a list have pairwise different names
UniqueNames(ts) == \A i, j \in 1..Len(ts) : ts[i].name = ts[j].name => i = j

\* the last descriptor of a list with the name
LastNamed(ts, name) ==
  ts[CHOOSE i \in 1..Len(ts) :
       /\ ts[i].name = name
       /\ \A j \in (i + 1)..Len(ts) : ts[j].name # name]

\* C31: names are unique after merging: the tools merged from the servers,
\* those main keeps and those passed to a query, hold at most one descriptor
\* per name, and the descriptor the Tools menu finds by name is the
\* last-registered one.
Claim_C31 ==
  /\ UniqueNames(tools)
  /\ UniqueNames(qTools)
  /\ (mpc = "menu" /\ lastCall.name # "") =>
       lastCall.description = LastNamed(tools, lastCall.name).description

\* the names of the local chart tools
ChartNameSet == {ChartToolNames[i] : i \in 1..Len(ChartToolNames)}

\* C32: chart tools are available regardless of server selection: whenever
\* the menu is shown the tools of the Tools menu contain the three local
\* chart tools, and the tool set offered to the model in a query holds the
\* three of them as local tools, with one server selected as with all.
Claim_C32 ==
  /\ mpc = "menu" => ChartNameSet \subseteq NamesOf(tools)
  /\ mpc = "query" =>
       /\ ChartNameSet \subseteq NamesOf(qTools)
       /\ \A n \in ChartNameSet : n \in DOMAIN toolSet /\ toolSet[n].local

\* the kinds of the calls a version has issued, in order
KindsOf(s) == [i \in 1..Len(s.issued) |-> s.issued[i].kind]

\* the transcripts the calls of one kind were issued on, in order
TranscriptsOf(s, kind) ==
  LET ofKind == SelectSeq(s.issued, LAMBDA c : c.kind = kind)
  IN  [i \in 1..Len(ofKind) |-> ofKind[i].transcript]

\* the tool output the prompts of the calls of one kind carry, in order
OutputsOf(s, kind) ==
  LET ofKind == SelectSeq(s.issued, LAMBDA c : c.kind = kind)
  IN  [i \in 1..Len(ofKind) |-> ofKind[i].output]

\* C33: fed the same model results and human replies, the while-loop
\* version and the self-recursive version are at the same place at every
\* step, have issued the same sequence of primary, summarize and forced
\* calls, have passed the same transcript to every turn (the prompt of
\* every primary call) and to every summarize and forced call, the same
\* tool output to every summarize call, keep the same lastToolCall and
\* consecutiveToolCalls, and end with the same outcome.
Thm_C33 ==
  /\ iterative.pc = recursive.pc
  /\ KindsOf(iterative) = KindsOf(recursive)
  /\ \A k \in {"primary", "summarize", "forced"} :
       TranscriptsOf(iterative, k) = TranscriptsOf(recursive, k)
  /\ OutputsOf(iterative, "summarize") = OutputsOf(recursive, "summarize")
  /\ iterative.pc = "primary" => iterative.transcript = recursive.transcript
  /\ iterative.lastToolCall = recursive.lastToolCall
  /\ iterative.consecutiveToolCalls = recursive.consecutiveToolCalls
  /\ iterative.outcome = recursive.outcome

\* C33 witness: both versions went through a clarification of the summarize
\* path, tripped the guard, got nothing from the forced call and ended
\* after a further summarize call.
Witness_C33 ==
  /\ iterative.pc = "done" /\ recursive.pc = "done"
  /\ iterative.outcome = "Done"
  /\ \E i \in 1..Len(iterative.issued) : iterative.issued[i].kind = "forced"
  /\ \E i \in 1..Len(iterative.transcript) :
       iterative.transcript[i] = UserEntry(<<"daily">>)
  /\ iterative.issued[Len(iterative.issued)].kind = "summarize"
  /\ Len(recursive.issued) >= 8

\* s is a prefix of t
IsPrefix(s, t) == Len(s) <= Len(t) /\ SubSeq(t, 1, Len(s)) = s

\* C34: the transcript is append-only: within a conversation every step
\* leaves the earlier entries as they are, only the start of a new turn
\* changes the transcript, the transcript passed to the new turn has the
\* transcript of the turn before as a prefix, and every entry, the
\* query's and the appended ones, is tagged User or Assistant.
Thm_C34 ==
  [][ /\ pc \notin {"menu", "done"} =>
           /\ IsPrefix(transcript, transcript')
           /\ transcript' # transcript => turn' = turn + 1
      /\ \A i \in 1..Len(transcript') :
           transcript'[i].tag \in {"User", "Assistant"} ]_vars

\* C34 witness: the third turn of a conversation works on a transcript
\* that grew by an elaboration and by a clarification answered with /run.
Witness_C34 ==
  /\ pc = "primary" /\ turn = 3
  /\ Len(transcript) = 6
  /\ transcript[1].tag = "User"
  /\ transcript[3] = UserEntry(AutoElaborate)
  /\ transcript[5] = UserEntry(<<"/run">>)
  /\ transcript[6] = AssistantEntry(BestNow)

\* C35: a turn whose primary result invokes no tool (the step leaves the
\* record of the tool-invoking turns as it is) leaves lastToolCall and
\* consecutiveToolCalls unchanged, so consecutiveToolCalls is the number of
\* repetitions in the current run of identical tool-invoking turns,
\* whatever text-only turns lie between them, and the forced call is
\* issued on the fourth turn of such a run.
Thm_C35 ==
  [][ /\ (pc = "primary" /\ prevNames' = prevNames /\ curRun' = curRun) =>
           /\ lastToolCall' = lastToolCall
           /\ consecutiveToolCalls' = consecutiveToolCalls
      /\ (pc = "primary" /\ pc' \in {"promptDirect", "done"} /\ toolResults' = <<>>
            /\ lastErr' = <<>>) =>
           /\ lastToolCall' = lastToolCall
           /\ consecutiveToolCalls' = consecutiveToolCalls
           /\ curRun' = curRun
      /\ curRun' >= 1 => consecutiveToolCalls' = curRun' - 1
      /\ (pc' = "forced" /\ pc = "primary") =>
           curRun' > MAX_CONSECUTIVE_TOOL_CALLS ]_vars

\* C35 witness: after three identical tool-invoking turns a turn returned
\* a clarification and no tool result; the counter still stands at 2.
Witness_C35 ==
  /\ pc = "promptDirect"
  /\ toolResults = <<>>
  /\ text = TextClarify
  /\ turn = 4
  /\ curRun = 3
  /\ lastToolCall = "search"
  /\ consecutiveToolCalls = 2

\* C36: a tool picked in the Tools menu is called on the client that listed
\* it: the descriptor found in tools is the one the called client lists for
\* that name, or it is a local chart tool and is run locally; also when
\* tools is the aggregate of all servers and the chart tools.
Claim_C36 ==
  (mpc = "menu" /\ lastCall.name # "") =>
    \/ /\ ~lastCall.local
       /\ lastCall.client \in ClientSet
       /\ lastCall.description = Lists(lastCall.client, lastCall.name).description
    \/ /\ lastCall.local
       /\ lastCall.client = "local"
       /\ lastCall.description = ChartDescription(lastCall.name)

\* C37: every entry of the tool set of a running query has a defined
\* executor: it is a local chart tool, or the client its execute resolves
\* is one of the connected clients; in all-servers mode toolClientMap holds
\* a client for the name of every tool passed that is not a chart tool, in
\* single-server mode opts.mcp is a connected client; no invocation went
\* to a missing client.
Thm_C37 ==
  mpc = "query" =>
    /\ \A n \in DOMAIN toolSet :
         \/ toolSet[n].local
         \/ ExecClient(n, qMulti, qToolClientMap, qMcp) \in ClientSet
    /\ qMulti =>
         \A i \in 1..Len(qTools) :
           ~IsChartTool(qTools[i].name) =>
             /\ qTools[i].name \in DOMAIN qToolClientMap
             /\ qToolClientMap[qTools[i].name] \in ClientSet
    /\ ~qMulti => qMcp \in ClientSet
    /\ NamesOf(qTools) = DOMAIN toolSet
    /\ lastCall.client # "undefined"

\* C37 witness: an all-servers query over the tools of both servers and the
\* chart tools, each remote name mapped, in which t1 of the second server
\* was invoked.
Witness_C37 ==
  /\ mpc = "query" /\ qMulti
  /\ qListing["Brave Search"] = Listed(<<Lists("Brave Search", "x")>>)
  /\ qListing["Alphavantage"] =
       Listed(<<Lists("Alphavantage", "t1"), Lists("Alphavantage", "t2")>>)
  /\ DOMAIN qToolClientMap = {"x", "t1", "t2"}
  /\ Cardinality(DOMAIN toolSet) = 6
  /\ lastCall.name = "t1" /\ lastCall.given = <<>>

\* C38: the retry budget is per primary call: every turn starts with
\* attempt at 0, its first call and no wait behind it, whatever the turn
\* before spent; within a turn at most 3 calls are made, and a transient
\* failure of the first or second call of any turn is retried.
Thm_C38 ==
  [][ /\ turn' # turn => attempt' = 0 /\ calls' = 1 /\ waited' = <<>>
      /\ attempt' <= MAX_ATTEMPTS /\ calls' <= MAX_ATTEMPTS
      /\ (pc = "primary" /\ lastErr' # <<>> /\ isOverload(lastErr'[1])
            /\ calls < MAX_ATTEMPTS) =>
           pc' = "backoff" /\ attempt' = calls
      /\ (pc = "backoff" /\ pc' = "primary") => calls' = attempt + 1 ]_vars

\* C38 witness: the third turn of a conversation is at its third attempt
\* after two waits: the conversation has made at least five primary calls.
Witness_C38 ==
  /\ turn = 3
  /\ pc = "primary" /\ calls = 3 /\ attempt = 2
  /\ waited = <<600, 1200>>
  /\ Len(transcript) >= 3

====
